---- MODULE Spec2Model ----
(***************************************************************************)
(* A model of sentence_transformers/evaluation/TranslationEvaluator.py.    *)
(*                                                                         *)
(* The evaluator holds two aligned sentence lists.  A call encodes both    *)
(* lists with the model it is given, builds the cosine-similarity matrix,  *)
(* counts for every row (and, after transposing, every column) whether the *)
(* arg-max lies on the diagonal, prints four flattened statistics, appends *)
(* a row to a CSV file and returns the mean of the two accuracies.         *)
(*                                                                         *)
(* Encodings used by the model                                             *)
(*   - lists and matrices are functions on 0..n-1, so an index of the      *)
(*     model is the index of the code;                                     *)
(*   - an embedding is a tuple of integers;                                *)
(*   - a cosine similarity c is kept as the fraction sgn(d)*d*d / (na*nb)  *)
(*     (d the dot product, na and nb the squared norms), which is          *)
(*     sgn(c)*c*c: it is compared by cross-multiplication, and orders the  *)
(*     similarities exactly as c does;                                     *)
(*   - an accuracy and the returned score are IEEE-754 doubles, kept with  *)
(*     their 53-bit significand and exponent, and computed with the        *)
(*     rounding of the hardware (to nearest, ties to even);                *)
(*   - a file is the string of its bytes.                                  *)
(***************************************************************************)
EXTENDS Integers, Sequences, FiniteSets, TLC

VARIABLES
    evaluators,   \* evaluator object id -> its fields, or NoEvaluator
    ctor,         \* the outcome of the last constructor call
    model,        \* the encoder under evaluation (SpecEval), else NoModel
    result,       \* evaluator id -> the outcome of its last __call__
    files,        \* csv path -> the bytes of the file, or NoFile
    encode_log,   \* the <<len(source), len(target)>> of every pair encoded
    csv_log,      \* csv path -> the data lines of the calls that returned
    ncalls,       \* number of __call__ invocations so far
    threads       \* SpecConc: thread id -> position and locals of its call

vars == <<evaluators, ctor, model, result, files, encode_log, csv_log, ncalls, threads>>

----------------------------------------------------------------------------
(* Bounds. *)

\* longest sentence list
MaxN == 2
\* number of __call__ invocations in one behaviour of Spec
MaxCalls == 3

\* embeddings the encoder may return in SpecEval: the zero vector, the two
\* axes, a diagonal and two vectors with a negative coordinate
Vec == { <<0, 0>>, <<1, 0>>, <<0, 1>>, <<1, 1>>, <<-1, 0>>, <<1, -1>> }

Languages == {"en", "fr"}
EvalIds == {"ev1", "ev2"}
Names == {"", "dev"}
OutputPaths == {"None", "out", "out/"}
\* the <<epoch, steps>> a training loop passes
EpochSteps == { <<-1, -1>>, <<1, 0>> }
Threads == {"t1", "t2"}

NoEvaluator == [source_sentences |-> <<>>, target_sentences |-> <<>>, name |-> "",
                print_wrong_matches |-> FALSE, write_csv |-> FALSE,
                csv_file |-> "", constructed |-> FALSE]
NoModel == <<>>
NoFile == "<absent>"

----------------------------------------------------------------------------
(* Lists: functions on 0..n-1. *)

len(l) == Cardinality(DOMAIN l)

\* the n first sentences of the corpus of a language
Corpus(lang, n) == [i \in 0..(n - 1) |-> <<lang, i>>]

----------------------------------------------------------------------------
(* Python floats: IEEE-754 binary64, the non-negative finite values.       *)
(* A float is [hi, lo, e]: its significand is hi * 2^27 + lo, with         *)
(* 2^25 <= hi < 2^26 and 0 <= lo < 2^27, and its value is                  *)
(* significand * 2^(e - 52).  Zero has hi = lo = e = 0.                    *)

\* 2^27
LoBase == 128 * 1024 * 1024
\* 2^25
HiMin == 32 * 1024 * 1024
\* 2^26
HiBase == 2 * HiMin

RECURSIVE Pow2(_)
Pow2(k) == IF k = 0 THEN 1 ELSE 2 * Pow2(k - 1)

FloatZero == [hi |-> 0, lo |-> 0, e |-> 0]

FloatOne == [hi |-> HiMin, lo |-> 0, e |-> 0]

\* placeholder for a float that was never computed
NoFloat == [hi |-> -1, lo |-> 0, e |-> 0]

\* the next float above x
FloatNextUp(x) ==
    IF x.lo + 1 < LoBase THEN [x EXCEPT !.lo = x.lo + 1]
    ELSE IF x.hi + 1 < HiBase THEN [x EXCEPT !.hi = x.hi + 1, !.lo = 0]
    ELSE [hi |-> HiMin, lo |-> 0, e |-> x.e + 1]

\* rounding to nearest, ties to even: x is the exact result cut off after
\* 53 bits and rem / unit, in [0, 1), the part of the last place cut off
FloatRound(x, rem, unit) ==
    IF 2 * rem > unit \/ (2 * rem = unit /\ x.lo % 2 = 1) THEN FloatNextUp(x) ELSE x

\* c / n scaled by 2^-e into [1, 2), divided and rounded
RECURSIVE FloatDivNorm(_, _, _)
FloatDivNorm(c, n, e) ==
    IF c < n THEN FloatDivNorm(2 * c, n, e - 1)
    ELSE IF c >= 2 * n THEN FloatDivNorm(c, 2 * n, e + 1)
    ELSE LET hi == (c * HiMin) \div n
             r1 == (c * HiMin) % n
             lo == (r1 * LoBase) \div n
             r2 == (r1 * LoBase) % n
         IN FloatRound([hi |-> hi, lo |-> lo, e |-> e], r2, n)

\* c / n of two ints, c >= 0 and n > 0, both below 16: the double nearest to
\* the quotient
FloatDiv(c, n) == IF c = 0 THEN FloatZero ELSE FloatDivNorm(c, n, 0)

\* x + y of two floats whose exponents are less than 27 apart: the double
\* nearest to the sum
FloatAdd(x, y) ==
    IF x = FloatZero THEN y
    ELSE IF y = FloatZero THEN x
    ELSE LET a == IF x.e >= y.e THEN x ELSE y
             b == IF x.e >= y.e THEN y ELSE x
             p == Pow2(a.e - b.e)
             \* b in units of the last place of a: q_hi, q_lo and r / p
             q_hi == b.hi \div p
             q_lo == (b.lo \div p) + (b.hi % p) * (LoBase \div p)
             r == b.lo % p
             s_lo == a.lo + q_lo
             t_lo == s_lo % LoBase
             t_hi == a.hi + q_hi + (s_lo \div LoBase)
         IN IF t_hi < HiBase
            THEN FloatRound([hi |-> t_hi, lo |-> t_lo, e |-> a.e], r, p)
            ELSE FloatRound([hi |-> t_hi \div 2,
                             lo |-> (t_lo \div 2) + (t_hi % 2) * (LoBase \div 2),
                             e |-> a.e + 1],
                            (t_lo % 2) * p + r, 2 * p)

\* x / 2 of a float: exact
FloatDivTwo(x) == IF x = FloatZero THEN x ELSE [x EXCEPT !.e = x.e - 1]

\* x <= y
FloatLeq(x, y) ==
    \/ x = FloatZero
    \/ /\ y # FloatZero
       /\ \/ x.e < y.e
          \/ x.e = y.e /\ x.hi < y.hi
          \/ x.e = y.e /\ x.hi = y.hi /\ x.lo <= y.lo

----------------------------------------------------------------------------
(* Embeddings and the similarity matrix. *)

\* model.encode(sentences, ...): one embedding per sentence, in input order
Encode(m, sentences) == [i \in DOMAIN sentences |-> m[sentences[i]]]

\* the sentences of two lists
Sentences(src, trg) == {src[i] : i \in DOMAIN src} \cup {trg[i] : i \in DOMAIN trg}

\* the encoders that map the sentences of two lists into the set V
Encoders(src, trg, V) == [Sentences(src, trg) -> V]

Axis(k) == IF k % 2 = 0 THEN <<1, 0>> ELSE <<0, 1>>

\* Three encoders a training run may hand to the evaluator: one that maps
\* sentence i of either language to the same axis, one that maps target
\* sentence i to the axis of source sentence i + 1, and one that maps
\* every sentence to one vector.
Checkpoints(src, trg) ==
    { [s \in Sentences(src, trg) |-> Axis(s[2])],
      [s \in Sentences(src, trg) |-> IF s[1] = "fr" THEN Axis(s[2] + 1) ELSE Axis(s[2])],
      [s \in Sentences(src, trg) |-> <<1, 0>>] }

RECURSIVE DotFrom(_, _, _)
DotFrom(a, b, k) == IF k > Len(a) THEN 0 ELSE a[k] * b[k] + DotFrom(a, b, k + 1)

Dot(a, b) == DotFrom(a, b, 1)

NormSq(a) == Dot(a, a)

Sgn(d) == IF d > 0 THEN 1 ELSE IF d < 0 THEN -1 ELSE 0

Abs(d) == IF d < 0 THEN -d ELSE d

\* cos_sim(a, b), kept as sgn(c)*c*c; 0 when a norm is 0
CosSim(a, b) ==
    LET d == Dot(a, b)
        na == NormSq(a)
        nb == NormSq(b)
    IN IF na = 0 \/ nb = 0 THEN [num |-> 0, den |-> 1]
       ELSE [num |-> Sgn(d) * d * d, den |-> na * nb]

\* pytorch_cos_sim(a, b): res[i][j] = cos_sim(a[i], b[j])
pytorch_cos_sim(a, b) == [i \in DOMAIN a |-> [j \in DOMAIN b |-> CosSim(a[i], b[j])]]

\* x > y on similarities
SimGreater(x, y) == x.num * y.den > y.num * x.den

\* the scan of np.argmax: a later entry replaces the best one only when it
\* is strictly greater, so the first index of the maximum is returned
RECURSIVE ArgMaxFrom(_, _, _)
ArgMaxFrom(row, j, best) ==
    IF j >= len(row) THEN best
    ELSE IF SimGreater(row[j], row[best]) THEN ArgMaxFrom(row, j + 1, j)
    ELSE ArgMaxFrom(row, j + 1, best)

\* ArgMax with the scan replacing the best entry on a tie: the last index
\* of the maximum
RECURSIVE ArgMaxFromLast(_, _, _)
ArgMaxFromLast(row, j, best) ==
    IF j >= len(row) THEN best
    ELSE IF ~SimGreater(row[best], row[j]) THEN ArgMaxFromLast(row, j + 1, j)
    ELSE ArgMaxFromLast(row, j + 1, best)

ArgMaxLastOnTie(row) == ArgMaxFromLast(row, 1, 0)

\* ArgMax with the comparison turned around: the first index of the minimum
RECURSIVE ArgMinFrom(_, _, _)
ArgMinFrom(row, j, best) ==
    IF j >= len(row) THEN best
    ELSE IF SimGreater(row[best], row[j]) THEN ArgMinFrom(row, j + 1, j)
    ELSE ArgMinFrom(row, j + 1, best)

ArgMaxAsArgMin(row) == ArgMinFrom(row, 1, 0)

\* np.argmax(row) of a non-empty row
ArgMax(row) == ArgMaxFrom(row, 1, 0)

\* Transpose with the transposition forgotten
TransposeForgotten(cs) == cs

\* cos_sims.T
Transpose(cs) ==
    LET cols == IF len(cs) = 0 THEN {} ELSE DOMAIN cs[0]
    IN [j \in cols |-> [i \in DOMAIN cs |-> cs[i][j]]]

\* CountCorrect with the loop starting at 1
CountCorrectFromOne(cs) == Cardinality({i \in DOMAIN cs \ {0} : ArgMax(cs[i]) = i})

\* the loop "for i in range(len(cos_sims)): if i == np.argmax(cos_sims[i])"
CountCorrect(cs) == Cardinality({i \in DOMAIN cs : ArgMax(cs[i]) = i})

\* sorted(zip(range(len(row)), row), key=score, reverse=True)[0:5]: the
\* indices by decreasing score, equal scores in index order
RECURSIVE Ranked(_, _, _)
Ranked(row, left, k) ==
    IF k = 0 \/ left = {} THEN <<>>
    ELSE LET top == CHOOSE j \in left :
                      \A h \in left : \/ SimGreater(row[j], row[h])
                                      \/ (~SimGreater(row[h], row[j]) /\ j <= h)
         IN <<top>> \o Ranked(row, left \ {top}, k - 1)

TopK == 5

\* row i is a wrong match whose line 82 reads cos_sims[i][i] outside the
\* row: the row has no column i
PrintIndexError(cs, i) == ArgMax(cs[i]) # i /\ i \notin DOMAIN cs[i]

\* what print_wrong_matches prints for the rows whose arg-max is off the
\* diagonal: <<i, max_idx, the top five indices>>, by increasing i.  The
\* row that raises at line 82 has printed i and max_idx only, and ends the
\* loop.
RECURSIVE WrongMatchesFrom(_, _)
WrongMatchesFrom(cs, i) ==
    IF i >= len(cs) THEN <<>>
    ELSE LET max_idx == ArgMax(cs[i])
         IN IF i = max_idx THEN WrongMatchesFrom(cs, i + 1)
            ELSE IF PrintIndexError(cs, i) THEN << <<i, max_idx, <<>>>> >>
            ELSE << <<i, max_idx, Ranked(cs[i], DOMAIN cs[i], TopK)>> >>
                 \o WrongMatchesFrom(cs, i + 1)

WrongMatches(cs) == WrongMatchesFrom(cs, 0)

----------------------------------------------------------------------------
(* The flattened statistics that are printed. *)

\* np.asarray([...]).reshape(1, -1): all embeddings concatenated
RECURSIVE FlattenFrom(_, _)
FlattenFrom(embs, i) == IF i >= len(embs) THEN <<>> ELSE embs[i] \o FlattenFrom(embs, i + 1)

Flatten(embs) == FlattenFrom(embs, 0)

RECURSIVE ManhattanFrom(_, _, _)
ManhattanFrom(a, b, k) ==
    IF k > Len(a) THEN 0 ELSE Abs(a[k] - b[k]) + ManhattanFrom(a, b, k + 1)

RECURSIVE SqDistFrom(_, _, _)
SqDistFrom(a, b, k) ==
    IF k > Len(a) THEN 0
    ELSE (a[k] - b[k]) * (a[k] - b[k]) + SqDistFrom(a, b, k + 1)

\* 1 - paired_cosine_distances(x, y): both rows are normalised (a zero row
\* stays zero) and the result is 1 - |x^ - y^|^2 / 2, which is the cosine
\* of two non-zero rows, 1/2 when one row is zero and 1 when both are.
\* Kept as sgn(c)*c*c like the other similarities.
PairedCosine(x, y) ==
    LET nx == NormSq(x)
        ny == NormSq(y)
    IN IF nx = 0 /\ ny = 0 THEN [num |-> 1, den |-> 1]
       ELSE IF nx = 0 \/ ny = 0 THEN [num |-> 1, den |-> 4]
       ELSE CosSim(x, y)

NoStats == [cosine |-> [num |-> 0, den |-> 0], manhattan |-> 0, euclidean_sq |-> 0, dot |-> 0]

\* cosine_scores, manhattan_distances, euclidean_distances (the printed
\* value is -sqrt(euclidean_sq)) and dot_products of the flattened sets
Stats(embeddings1, embeddings2) ==
    LET x == Flatten(embeddings1)
        y == Flatten(embeddings2)
    IN [cosine |-> PairedCosine(x, y),
        manhattan |-> -ManhattanFrom(x, y, 1),
        euclidean_sq |-> SqDistFrom(x, y, 1),
        dot |-> Dot(x, y)]

----------------------------------------------------------------------------
(* The computation of __call__, lines 64-137. *)

\* TorchStackOk of a stack that accepts the empty list
TorchStackAcceptsEmpty(embeddings) == TRUE

\* torch.stack(embeddings) accepts a non-empty list only; on an empty one
\* it raises RuntimeError("stack expects a non-empty TensorList")
TorchStackOk(embeddings) == len(embeddings) > 0

\* correct / len(cos_sims), for len(cos_sims) > 0
\* correct / len(cos_sims), an int by an int
Accuracy(correct, n) == FloatDiv(correct, n)

\* Score with the division by 2 forgotten
ScoreNotHalved(locals) == FloatAdd(locals.acc_src2trg, locals.acc_trg2src)

\* Score with the flattened dot product averaged in
ScoreWithDot(locals) ==
    FloatDivTwo(FloatAdd(FloatAdd(locals.acc_src2trg, locals.acc_trg2src),
                         FloatDiv(Abs(locals.stats.dot), 1)))

\* return (acc_src2trg+acc_trg2src)/2, evaluated on the locals of the call
Score(locals) == FloatDivTwo(FloatAdd(locals.acc_src2trg, locals.acc_trg2src))

NoResult == [outcome |-> "none", acc_src2trg |-> NoFloat, acc_trg2src |-> NoFloat,
             score |-> NoFloat, stats |-> NoStats, printed |-> <<>>]

Raised(exception) == [NoResult EXCEPT !.outcome = exception]

\* Everything __call__ computes between the two encode calls and the CSV
\* block.  outcome is "returned" when the CSV block is reached, else the
\* exception that ends the call; printed is what lines 79-87 have printed
\* by then, whichever way the call ends.
Evaluate(ev, m) ==
    LET embeddings1 == Encode(m, ev.source_sentences)
        embeddings2 == Encode(m, ev.target_sentences)
    IN IF ~TorchStackOk(embeddings1) \/ ~TorchStackOk(embeddings2)
       THEN Raised("RuntimeError")
       ELSE
         LET cos_sims == pytorch_cos_sim(embeddings1, embeddings2)
             correct_src2trg == CountCorrect(cos_sims)
             cos_simsT == Transpose(cos_sims)
             correct_trg2src == CountCorrect(cos_simsT)
         IN IF /\ ev.print_wrong_matches
               /\ \E i \in DOMAIN cos_sims : PrintIndexError(cos_sims, i)
            THEN [Raised("IndexError") EXCEPT !.printed = WrongMatches(cos_sims)]
            ELSE IF len(cos_simsT) = 0
            THEN [Raised("ZeroDivisionError") EXCEPT
                      !.printed = IF ev.print_wrong_matches
                                  THEN WrongMatches(cos_sims) ELSE <<>>]
            ELSE IF Len(Flatten(embeddings1)) # Len(Flatten(embeddings2))
            THEN [Raised("ValueError") EXCEPT
                      !.printed = IF ev.print_wrong_matches
                                  THEN WrongMatches(cos_sims) ELSE <<>>]
            ELSE
              LET locals == [outcome |-> "returned",
                             acc_src2trg |-> Accuracy(correct_src2trg, len(cos_simsT)),
                             acc_trg2src |-> Accuracy(correct_trg2src, len(cos_simsT)),
                             score |-> NoFloat,
                             stats |-> Stats(embeddings1, embeddings2),
                             printed |-> IF ev.print_wrong_matches
                                         THEN WrongMatches(cos_sims) ELSE <<>>]
              IN [locals EXCEPT !.score = Score(locals)]

----------------------------------------------------------------------------
(* The CSV file, lines 139-147. *)

Digit(d) == CASE d = 0 -> "0" [] d = 1 -> "1" [] d = 2 -> "2" [] d = 3 -> "3"
              [] d = 4 -> "4" [] d = 5 -> "5" [] d = 6 -> "6" [] d = 7 -> "7"
              [] d = 8 -> "8" [] d = 9 -> "9"

RECURSIVE NatStr(_)
NatStr(k) == IF k < 10 THEN Digit(k) ELSE NatStr(k \div 10) \o Digit(k % 10)

\* str(k) of an int
IntStr(k) == IF k < 0 THEN "-" \o NatStr(-k) ELSE NatStr(k)

\* repr(x) of the float correct / n, for the quotients with n <= 4
FloatRepr(x) ==
    CASE x = FloatZero -> "0.0"
      [] x = FloatOne -> "1.0"
      [] x = FloatDiv(1, 2) -> "0.5"
      [] x = FloatDiv(1, 3) -> "0.3333333333333333"
      [] x = FloatDiv(2, 3) -> "0.6666666666666666"
      [] x = FloatDiv(1, 4) -> "0.25"
      [] x = FloatDiv(3, 4) -> "0.75"
      [] OTHER -> IntStr(x.hi) \o ":" \o IntStr(x.lo) \o ":" \o IntStr(x.e)

RECURSIVE JoinFrom(_, _)
JoinFrom(fields, k) ==
    IF k > Len(fields) THEN ""
    ELSE (IF k > 1 THEN "," ELSE "") \o fields[k] \o JoinFrom(fields, k + 1)

\* csv.writer(f).writerow(fields): comma-separated, ended by \r\n
CsvLine(fields) == JoinFrom(fields, 1) \o "\r\n"

csv_headers == <<"epoch", "steps", "src2trg", "trg2src">>

\* the text of the row [epoch, steps, acc_src2trg, acc_trg2src]
DataLine(row) == CsvLine(<<IntStr(row[1]), IntStr(row[2]), FloatRepr(row[3]), FloatRepr(row[4])>>)

\* "translation_evaluation" + ("_" + name if name) + "_results.csv"
CsvFile(name) ==
    "translation_evaluation" \o (IF name # "" THEN "_" \o name ELSE "") \o "_results.csv"

\* os.path.join(output_path, self.csv_file), csv_file being relative: the
\* separator is added unless output_path is empty or ends with one
CsvPath(output_path, csv_file) ==
    IF output_path = "" THEN csv_file
    ELSE IF SubSeq(output_path, Len(output_path), Len(output_path)) = "/"
    THEN output_path \o csv_file
    ELSE output_path \o "/" \o csv_file

Paths == {CsvPath(o, CsvFile(n)) : o \in OutputPaths \ {"None"}, n \in Names}

\* os.path.isfile(csv_path)
IsFile(fs, path) == fs[path] # NoFile

\* OpenMode that always truncates
OpenModeAlwaysW(output_file_exists) == "w"

\* OpenMode that always appends
OpenModeAlwaysA(output_file_exists) == "a"

\* mode="a" if output_file_exists else 'w'
OpenMode(output_file_exists) == IF output_file_exists THEN "a" ELSE "w"

\* open(csv_path, mode=...): 'w' creates the file or truncates it, 'a'
\* creates it when absent and leaves its bytes alone otherwise
OpenFile(fs, path, mode) ==
    IF mode = "w" \/ fs[path] = NoFile THEN [fs EXCEPT ![path] = ""] ELSE fs

\* the bytes of old with data written over them from offset 0
Overlay(old, data) ==
    IF Len(old) > Len(data) THEN data \o SubSeq(old, Len(data) + 1, Len(old)) ELSE data

\* Leaving the with block flushes the buffered rows in one write: at the
\* end of the file in 'a' mode, at the descriptor's own offset (0, nothing
\* was written before) in 'w' mode.
CloseFile(fs, path, mode, buffer) ==
    LET old == IF fs[path] = NoFile THEN "" ELSE fs[path]
    IN [fs EXCEPT ![path] = IF mode = "a" THEN old \o buffer ELSE Overlay(old, buffer)]

\* if not output_file_exists: writer.writerow(self.csv_headers)
HeaderPart(output_file_exists) == IF output_file_exists THEN "" ELSE CsvLine(csv_headers)

\* the guard of the CSV block
WritesCsv(ev, output_path) == output_path # "None" /\ ev.write_csv

\* the whole CSV block run without interruption
WriteCsv(fs, path, row) ==
    LET output_file_exists == IsFile(fs, path)
        mode == OpenMode(output_file_exists)
    IN CloseFile(OpenFile(fs, path, mode), path, mode,
                 HeaderPart(output_file_exists) \o DataLine(row))

----------------------------------------------------------------------------
(* State and operations. *)

NoCtor == [outcome |-> "none", n_src |-> 0, n_trg |-> 0]

NoThread == [pc |-> "idle", ev |-> "ev1", locals |-> NoResult, row |-> <<>>,
             csv_path |-> "", output_file_exists |-> FALSE, mode |-> "", buffer |-> ""]

\* no evaluator constructed, no file written
Init ==
    /\ evaluators = [e \in EvalIds |-> NoEvaluator]
    /\ ctor = NoCtor
    /\ model = NoModel
    /\ result = [e \in EvalIds |-> NoResult]
    /\ files = [p \in Paths |-> NoFile]
    /\ encode_log = {}
    /\ csv_log = [p \in Paths |-> <<>>]
    /\ ncalls = 0
    /\ threads = [t \in Threads |-> NoThread]

\* AssertOk with the assertion left out
AssertOkLeftOut(source_sentences, target_sentences) == TRUE

\* assert len(self.source_sentences) == len(self.target_sentences)
AssertOk(source_sentences, target_sentences) == len(source_sentences) = len(target_sentences)

\* the object __init__ leaves behind
NewEvaluator(source_sentences, target_sentences, name, print_wrong_matches, write_csv) ==
    [source_sentences |-> source_sentences,
     target_sentences |-> target_sentences,
     name |-> name,
     print_wrong_matches |-> print_wrong_matches,
     write_csv |-> write_csv,
     csv_file |-> CsvFile(name),
     constructed |-> TRUE]

\* e = TranslationEvaluator(source_sentences, target_sentences, name=...,
\* print_wrong_matches=..., write_csv=...).  When the assertion fails no
\* object is made and e keeps what it held.
Construct(e, source_sentences, target_sentences, name, print_wrong_matches, write_csv) ==
    /\ ctor' = [outcome |-> IF AssertOk(source_sentences, target_sentences)
                            THEN "ok" ELSE "AssertionError",
                n_src |-> len(source_sentences),
                n_trg |-> len(target_sentences)]
    /\ IF AssertOk(source_sentences, target_sentences)
       THEN /\ evaluators' = [evaluators EXCEPT ![e] =
                                NewEvaluator(source_sentences, target_sentences, name,
                                             print_wrong_matches, write_csv)]
            /\ result' = [result EXCEPT ![e] = NoResult]
       ELSE UNCHANGED <<evaluators, result>>
    /\ UNCHANGED <<model, files, encode_log, csv_log, ncalls, threads>>

\* the two model.encode calls of lines 64-65
EncodeLogged(ev) == encode_log \cup { <<len(ev.source_sentences), len(ev.target_sentences)>> }

\* evaluators[e](m, output_path, epoch, steps), run from start to end
Call(e, m, output_path, epoch, steps) ==
    LET ev == evaluators[e]
        r == Evaluate(ev, m)
        csv_path == CsvPath(output_path, ev.csv_file)
        row == <<epoch, steps, r.acc_src2trg, r.acc_trg2src>>
    IN /\ ev.constructed
       /\ encode_log' = EncodeLogged(ev)
       /\ ncalls' = ncalls + 1
       /\ result' = [result EXCEPT ![e] = r]
       /\ IF r.outcome = "returned" /\ WritesCsv(ev, output_path)
          THEN /\ files' = WriteCsv(files, csv_path, row)
               /\ csv_log' = [csv_log EXCEPT ![csv_path] = Append(@, row)]
          ELSE UNCHANGED <<files, csv_log>>
       /\ UNCHANGED <<evaluators, ctor, model, threads>>

\* the evaluator that a single-threaded program builds and calls
SeqEvalIds == {"ev1"}

\* The program of Spec builds its evaluator once and evaluates up to
\* MaxCalls times; a construction that fails may be attempted at any time.
\* The target list has the length of the source list or one sentence less.
ConstructAny ==
    \E e \in SeqEvalIds, n_src \in 0..MaxN, name \in Names,
       print_wrong_matches \in BOOLEAN, write_csv \in BOOLEAN :
      \E n_trg \in {n_src, n_src - 1} \cap (0..MaxN) :
        /\ \/ ~evaluators[e].constructed
           \/ ~AssertOk(Corpus("en", n_src), Corpus("fr", n_trg))
        /\ Construct(e, Corpus("en", n_src), Corpus("fr", n_trg), name,
                     print_wrong_matches, write_csv)

CallAny ==
    \E e \in SeqEvalIds, output_path \in OutputPaths, es \in EpochSteps :
        /\ ncalls < MaxCalls
        /\ \E m \in Checkpoints(evaluators[e].source_sentences,
                               evaluators[e].target_sentences) :
              Call(e, m, output_path, es[1], es[2])

Next == ConstructAny \/ CallAny

Spec == Init /\ [][Next]_vars

----------------------------------------------------------------------------
(* SpecEval: the evaluation as a function of the encoder.  The initial     *)
(* state holds an encoder, an evaluator ev1 of n sentence pairs and the    *)
(* evaluator ev2 built with the two lists swapped; each is called once     *)
(* with that encoder.                                                      *)

InitEval ==
    \E n \in 0..MaxN, print_wrong_matches \in BOOLEAN :
        /\ model \in Encoders(Corpus("en", n), Corpus("fr", n), Vec)
        /\ evaluators = [e \in EvalIds |->
                           IF e = "ev1"
                           THEN NewEvaluator(Corpus("en", n), Corpus("fr", n), "",
                                             print_wrong_matches, FALSE)
                           ELSE NewEvaluator(Corpus("fr", n), Corpus("en", n), "",
                                             print_wrong_matches, FALSE)]
        /\ ctor = [outcome |-> "ok", n_src |-> n, n_trg |-> n]
        /\ result = [e \in EvalIds |-> NoResult]
        /\ files = [p \in Paths |-> NoFile]
        /\ encode_log = {}
        /\ csv_log = [p \in Paths |-> <<>>]
        /\ ncalls = 0
        /\ threads = [t \in Threads |-> NoThread]

CallOnce ==
    \E e \in EvalIds :
        /\ result[e].outcome = "none"
        /\ Call(e, model, "None", -1, -1)

NextEval == CallOnce

SpecEval == InitEval /\ [][NextEval]_vars

\* the similarity matrix evaluator e builds from the encoder of SpecEval
CosSimsOf(e) ==
    pytorch_cos_sim(Encode(model, evaluators[e].source_sentences),
                    Encode(model, evaluators[e].target_sentences))

Returned(e) == result[e].outcome = "returned"

NumPairs(e) == len(evaluators[e].source_sentences)

IsZero(x) == x = FloatZero

IsOne(x) == x = FloatOne

----------------------------------------------------------------------------
(* Claims about the evaluation as a function (SpecEval). *)

\* C1: every value a call returns lies in [0.0, 1.0].
C1_ScoreInUnitInterval ==
    \A e \in EvalIds :
        Returned(e) =>
            /\ result[e].score # NoFloat
            /\ FloatLeq(FloatZero, result[e].score)
            /\ FloatLeq(result[e].score, FloatOne)

\* a call on at least two pairs returned a value strictly between 0 and 1
C1_Witness ==
    \E e \in EvalIds :
        /\ Returned(e)
        /\ NumPairs(e) >= 2
        /\ ~FloatLeq(result[e].score, FloatZero)
        /\ ~FloatLeq(FloatOne, result[e].score)

\* entry (i, i) of row i is beaten: another entry of the row is greater, or
\* an entry of lower index is as great
RowBeaten(cs, i) ==
    \E j \in DOMAIN cs[i] :
        /\ j # i
        /\ \/ SimGreater(cs[i][j], cs[i][i])
           \/ (j < i /\ ~SimGreater(cs[i][i], cs[i][j]))

\* the same for column j and its entry (j, j)
ColBeaten(cs, j) ==
    \E i \in DOMAIN cs :
        /\ i # j
        /\ \/ SimGreater(cs[i][j], cs[j][j])
           \/ (i < j /\ ~SimGreater(cs[j][j], cs[i][j]))

NoSentenceMatches(cs) ==
    /\ \A i \in DOMAIN cs : RowBeaten(cs, i)
    /\ \A j \in DOMAIN cs : ColBeaten(cs, j)

\* C3: when no source sentence and no target sentence has its translation
\* as nearest neighbour, both accuracies are 0.0.
C3_NoMatchGivesZero ==
    \A e \in EvalIds :
        (Returned(e) /\ NoSentenceMatches(CosSimsOf(e))) =>
            /\ IsZero(result[e].acc_src2trg)
            /\ IsZero(result[e].acc_trg2src)

\* a call on N > 1 pairs in which every sentence is strictly nearer to the
\* translation of its cyclic successor
C3_Witness ==
    \E e \in EvalIds :
        LET cs == CosSimsOf(e)
            n == NumPairs(e)
        IN /\ Returned(e)
           /\ n > 1
           /\ \A i \in DOMAIN cs : \A j \in DOMAIN cs :
                 j # (i + 1) % n => SimGreater(cs[i][(i + 1) % n], cs[i][j])
           /\ NoSentenceMatches(cs)
           /\ IsZero(result[e].acc_src2trg)

\* entry (i, i) is a maximum of row i and of column i
DiagonalMaximal(cs) ==
    \A i \in DOMAIN cs : \A j \in DOMAIN cs :
        /\ ~SimGreater(cs[i][j], cs[i][i])
        /\ ~SimGreater(cs[j][i], cs[i][i])

\* no entry of lower index in row i or column i is as great as entry (i, i)
DiagonalFirst(cs) ==
    \A i \in DOMAIN cs : \A j \in DOMAIN cs :
        j < i => (SimGreater(cs[i][i], cs[i][j]) /\ SimGreater(cs[i][i], cs[j][i]))

AllOnes(e) ==
    /\ IsOne(result[e].acc_src2trg)
    /\ IsOne(result[e].acc_trg2src)
    /\ IsOne(result[e].score)

\* C4 as stated: when every diagonal entry is a maximum of its row and of
\* its column, both accuracies and the score are 1.0.
C4_AsStated ==
    \A e \in EvalIds :
        (Returned(e) /\ DiagonalMaximal(CosSimsOf(e))) => AllOnes(e)

\* C4, amended: when every diagonal entry is a maximum of its row and of
\* its column and no entry of lower index in that row or column equals it,
\* both accuracies and the score are 1.0.
C4_DiagonalFirstGivesOne ==
    \A e \in EvalIds :
        (Returned(e) /\ DiagonalMaximal(CosSimsOf(e)) /\ DiagonalFirst(CosSimsOf(e)))
            => AllOnes(e)

\* a call on N > 1 pairs whose diagonal is maximal and first, with a tie
\* at a higher index, returned 1.0
C4_Witness ==
    \E e \in EvalIds :
        LET cs == CosSimsOf(e)
        IN /\ Returned(e)
           /\ NumPairs(e) > 1
           /\ DiagonalMaximal(cs)
           /\ DiagonalFirst(cs)
           /\ \E i \in DOMAIN cs : \E j \in DOMAIN cs :
                 j > i /\ ~SimGreater(cs[i][i], cs[i][j])
           /\ AllOnes(e)

\* ev2 holds the lists of ev1 swapped
Swapped ==
    /\ evaluators["ev2"].source_sentences = evaluators["ev1"].target_sentences
    /\ evaluators["ev2"].target_sentences = evaluators["ev1"].source_sentences

\* C5: with the two lists swapped and the same encoder, acc_src2trg is the
\* acc_trg2src of the original, acc_trg2src its acc_src2trg, and the score
\* is the same.
C5_SwapSwapsAccuracies ==
    (Swapped /\ Returned("ev1") /\ Returned("ev2")) =>
        /\ result["ev2"].acc_src2trg = result["ev1"].acc_trg2src
        /\ result["ev2"].acc_trg2src = result["ev1"].acc_src2trg
        /\ result["ev2"].score = result["ev1"].score

\* both evaluators returned and the two accuracies of the original differ
C5_Witness ==
    /\ Swapped
    /\ Returned("ev1")
    /\ Returned("ev2")
    /\ result["ev1"].acc_src2trg # result["ev1"].acc_trg2src

\* C7: a call on zero sentences does not end in a division error: it ends
\* in an accuracy of 0.0 or in an error raised by an explicit check.
C7_EmptyInputNoDivisionError ==
    \A e \in EvalIds :
        (NumPairs(e) = 0 /\ result[e].outcome # "none") =>
            /\ result[e].outcome # "ZeroDivisionError"
            /\ \/ result[e].outcome = "RuntimeError"
               \/ /\ Returned(e)
                  /\ IsZero(result[e].acc_src2trg)
                  /\ IsZero(result[e].acc_trg2src)

\* a call on zero sentences ended with the error of torch.stack
C7_Witness ==
    \E e \in EvalIds :
        /\ evaluators[e].constructed
        /\ NumPairs(e) = 0
        /\ result[e].outcome = "RuntimeError"

\* the rows whose lowest-index maximal column is the row's own index
RowMatches(cs) ==
    {i \in DOMAIN cs :
        /\ \A j \in DOMAIN cs[i] : ~SimGreater(cs[i][j], cs[i][i])
        /\ \A j \in DOMAIN cs[i] : j < i => SimGreater(cs[i][i], cs[i][j])}

\* the columns whose lowest-index maximal row is the column's own index
ColMatches(cs) ==
    {j \in DOMAIN cs :
        /\ \A i \in DOMAIN cs : ~SimGreater(cs[i][j], cs[j][j])
        /\ \A i \in DOMAIN cs : i < j => SimGreater(cs[j][j], cs[i][j])}

\* C9: acc_src2trg = (rows whose lowest-index maximal column is the row) / N
\* and acc_trg2src = (columns whose lowest-index maximal row is the
\* column) / N; on a tie the lowest index wins.
C9_AccuracyIsFirstArgmaxRate ==
    \A e \in EvalIds :
        Returned(e) =>
            LET cs == CosSimsOf(e)
                n == NumPairs(e)
            IN /\ result[e].acc_src2trg = FloatDiv(Cardinality(RowMatches(cs)), n)
               /\ result[e].acc_trg2src = FloatDiv(Cardinality(ColMatches(cs)), n)

\* a call whose matrix has a row where the diagonal entry ties with an
\* entry of lower index (no match) and a row where it ties with an entry of
\* higher index only (a match)
C9_Witness ==
    \E e \in EvalIds :
        LET cs == CosSimsOf(e)
        IN /\ Returned(e)
           /\ \E i \in DOMAIN cs : \E j \in DOMAIN cs :
                 /\ j < i
                 /\ cs[i][j].num * cs[i][i].den = cs[i][i].num * cs[i][j].den
                 /\ \A h \in DOMAIN cs : ~SimGreater(cs[i][h], cs[i][i])
                 /\ i \notin RowMatches(cs)
           /\ \E i \in DOMAIN cs : \E j \in DOMAIN cs :
                 /\ j > i
                 /\ cs[i][j].num * cs[i][i].den = cs[i][i].num * cs[i][j].den
                 /\ i \in RowMatches(cs)
           /\ ~IsZero(result[e].acc_src2trg)
           /\ ~IsOne(result[e].acc_src2trg)

----------------------------------------------------------------------------
(* Claims about the single-threaded program (Spec). *)

RECURSIVE DataLinesFrom(_, _)
DataLinesFrom(rows, k) ==
    IF k > Len(rows) THEN "" ELSE DataLine(rows[k]) \o DataLinesFrom(rows, k + 1)

\* one header line followed by the lines of rows, in order
HeaderThenRows(rows) == CsvLine(csv_headers) \o DataLinesFrom(rows, 1)

\* C2: after N calls that wrote to a path one after another, the file is
\* one header line followed by N data lines, the k-th being the (epoch,
\* steps, acc_src2trg, acc_trg2src) of the k-th call; a path no call wrote
\* to has no file.
C2_FileIsHeaderThenRows ==
    \A path \in Paths :
        IF csv_log[path] = <<>>
        THEN files[path] = NoFile
        ELSE files[path] = HeaderThenRows(csv_log[path])

\* three calls wrote to one path, not all with the same row
C2_Witness ==
    \E path \in Paths :
        /\ Len(csv_log[path]) >= 3
        /\ csv_log[path][1] # csv_log[path][2]
        /\ csv_log[path][2] # csv_log[path][3]
        /\ files[path] = HeaderThenRows(csv_log[path])

\* C6: a construction with lists of different lengths fails with an
\* AssertionError and leaves no object, so model.encode is never called on
\* lists of different lengths.
C6_MismatchFailsBeforeEncoding ==
    /\ ctor.outcome # "none" => (ctor.outcome = "AssertionError" <=> ctor.n_src # ctor.n_trg)
    /\ \A e \in EvalIds :
           len(evaluators[e].source_sentences) = len(evaluators[e].target_sentences)
    /\ \A pair \in encode_log : pair[1] = pair[2]

\* a construction with 2 source and 1 target sentences has just failed in a
\* program that has evaluated before
C6_Witness ==
    /\ ctor.outcome = "AssertionError"
    /\ ctor.n_src = 2
    /\ ctor.n_trg = 1
    /\ ncalls > 0
    /\ encode_log # {}

\* C8: the value returned is (acc_src2trg + acc_trg2src) / 2, whatever
\* output_path, write_csv, print_wrong_matches, epoch and steps are; the
\* flattened statistics do not enter it.  Stated on the floats: twice the
\* value returned (a doubling is exact) is the float sum of the two
\* accuracies.
C8_ScoreIsMeanOfAccuracies ==
    \A e \in EvalIds :
        Returned(e) =>
            /\ result[e].score # NoFloat
            /\ FloatAdd(result[e].score, result[e].score)
                 = FloatAdd(result[e].acc_src2trg, result[e].acc_trg2src)

\* a call with print_wrong_matches and write_csv set and an output_path
\* given printed a wrong match, wrote its row and returned, with a
\* non-zero flattened cosine and dot product
C8_Witness ==
    \E e \in EvalIds :
        /\ Returned(e)
        /\ evaluators[e].print_wrong_matches
        /\ evaluators[e].write_csv
        /\ result[e].printed # <<>>
        /\ result[e].stats.cosine.num # 0
        /\ result[e].stats.dot # 0
        /\ \E path \in Paths : csv_log[path] # <<>>

----------------------------------------------------------------------------
(* SpecConc: two threads, each making one call on its own evaluator.  The  *)
(* computation of a call touches nothing shared and is one step; the CSV   *)
(* block is one step per statement.                                        *)

ThreadEval(t) == IF t = "t1" THEN "ev1" ELSE "ev2"

InitConc ==
    \E n \in 0..MaxN, name1 \in Names, name2 \in Names :
        /\ evaluators = [e \in EvalIds |->
                           NewEvaluator(Corpus("en", n), Corpus("fr", n),
                                        IF e = "ev1" THEN name1 ELSE name2, FALSE, TRUE)]
        /\ ctor = [outcome |-> "ok", n_src |-> n, n_trg |-> n]
        /\ model = NoModel
        /\ result = [e \in EvalIds |-> NoResult]
        /\ files = [p \in Paths |-> NoFile]
        /\ encode_log = {}
        /\ csv_log = [p \in Paths |-> <<>>]
        /\ ncalls = 0
        /\ threads = [t \in Threads |-> [NoThread EXCEPT !.ev = ThreadEval(t)]]

\* lines 54-139: the call up to the test that guards the CSV block
T_Begin(t, m, output_path, epoch, steps) ==
    LET e == threads[t].ev
        ev == evaluators[e]
        r == Evaluate(ev, m)
    IN /\ threads[t].pc = "idle"
       /\ encode_log' = EncodeLogged(ev)
       /\ ncalls' = ncalls + 1
       /\ IF r.outcome = "returned" /\ WritesCsv(ev, output_path)
          THEN /\ threads' = [threads EXCEPT ![t].pc = "isfile",
                                             ![t].locals = r,
                                             ![t].row = <<epoch, steps, r.acc_src2trg,
                                                          r.acc_trg2src>>,
                                             ![t].csv_path = CsvPath(output_path, ev.csv_file)]
               /\ UNCHANGED result
          ELSE /\ threads' = [threads EXCEPT ![t].pc = IF r.outcome = "returned"
                                                       THEN "done" ELSE "raised"]
               /\ result' = [result EXCEPT ![e] = r]
       /\ UNCHANGED <<evaluators, ctor, model, files, csv_log>>

\* line 141: output_file_exists = os.path.isfile(csv_path)
T_IsFile(t) ==
    /\ threads[t].pc = "isfile"
    /\ threads' = [threads EXCEPT ![t].pc = "open",
                                  ![t].output_file_exists = IsFile(files, threads[t].csv_path)]
    /\ UNCHANGED <<evaluators, ctor, model, result, files, encode_log, csv_log, ncalls>>

\* line 142: open(csv_path, mode="a" if output_file_exists else 'w')
T_Open(t) ==
    LET mode == OpenMode(threads[t].output_file_exists)
    IN /\ threads[t].pc = "open"
       /\ files' = OpenFile(files, threads[t].csv_path, mode)
       /\ threads' = [threads EXCEPT ![t].pc = "header", ![t].mode = mode]
       /\ UNCHANGED <<evaluators, ctor, model, result, encode_log, csv_log, ncalls>>

\* lines 144-145: the header goes to the buffer of the file object
T_WriteHeader(t) ==
    /\ threads[t].pc = "header"
    /\ threads' = [threads EXCEPT ![t].pc = "row",
                                  ![t].buffer = HeaderPart(threads[t].output_file_exists)]
    /\ UNCHANGED <<evaluators, ctor, model, result, files, encode_log, csv_log, ncalls>>

\* line 147: the row goes to the buffer of the file object
T_WriteRow(t) ==
    /\ threads[t].pc = "row"
    /\ threads' = [threads EXCEPT ![t].pc = "close",
                                  ![t].buffer = @ \o DataLine(threads[t].row)]
    /\ UNCHANGED <<evaluators, ctor, model, result, files, encode_log, csv_log, ncalls>>

\* the end of the with block writes the buffer; line 149 returns
T_Close(t) ==
    /\ threads[t].pc = "close"
    /\ files' = CloseFile(files, threads[t].csv_path, threads[t].mode, threads[t].buffer)
    /\ csv_log' = [csv_log EXCEPT ![threads[t].csv_path] = Append(@, threads[t].row)]
    /\ result' = [result EXCEPT ![threads[t].ev] = threads[t].locals]
    /\ threads' = [threads EXCEPT ![t].pc = "done"]
    /\ UNCHANGED <<evaluators, ctor, model, encode_log, ncalls>>

BeginAny ==
    \E t \in Threads, output_path \in OutputPaths, es \in EpochSteps :
        \E m \in Checkpoints(evaluators[threads[t].ev].source_sentences,
                             evaluators[threads[t].ev].target_sentences) :
            T_Begin(t, m, output_path, es[1], es[2])

NextConc ==
    \/ BeginAny
    \/ \E t \in Threads : T_IsFile(t)
    \/ \E t \in Threads : T_Open(t)
    \/ \E t \in Threads : T_WriteHeader(t)
    \/ \E t \in Threads : T_WriteRow(t)
    \/ \E t \in Threads : T_Close(t)

SpecConc == InitConc /\ [][NextConc]_vars

\* both threads are through the CSV block of one path, and both found the
\* file absent
BothSawNoFile ==
    /\ \A t \in Threads :
          /\ threads[t].pc = "done"
          /\ threads[t].csv_path # ""
          /\ ~threads[t].output_file_exists
    /\ threads["t1"].csv_path = threads["t2"].csv_path

StartsWith(text, prefix) ==
    Len(text) >= Len(prefix) /\ SubSeq(text, 1, Len(prefix)) = prefix

\* C10: the test for the file and the opening of it are separate steps, so
\* two calls may both find the file absent; each then opens it in 'w' mode
\* and writes a header, and the file ends as the header and the row of one
\* call, with less than the two rows: it is not a header followed by one
\* row per call.
C10_StaleCheckLosesRow ==
    BothSawNoFile =>
        LET text == files[threads["t1"].csv_path]
            line1 == DataLine(threads["t1"].row)
            line2 == DataLine(threads["t2"].row)
        IN /\ \A t \in Threads : threads[t].mode = "w"
           /\ \/ StartsWith(text, CsvLine(csv_headers) \o line1)
              \/ StartsWith(text, CsvLine(csv_headers) \o line2)
           /\ Len(text) < Len(CsvLine(csv_headers)) + Len(line1) + Len(line2)
           /\ text # HeaderThenRows(<<threads["t1"].row, threads["t2"].row>>)
           /\ text # HeaderThenRows(<<threads["t2"].row, threads["t1"].row>>)

\* both calls found the file absent and the file holds the header and the
\* row of the second call only, which differs from the row of the first
C10_Witness ==
    /\ BothSawNoFile
    /\ threads["t1"].row # threads["t2"].row
    /\ files[threads["t1"].csv_path] = HeaderThenRows(<<threads["t2"].row>>)
    /\ Len(csv_log[threads["t1"].csv_path]) = 2

====
